---- MODULE Spec2Model ----
(***************************************************************************)
(* Balance-derivation engine of the ewallet application (src/utils.ts):    *)
(* calculateBalances (snapshot aggregator) and getDailyBalancesForMonth    *)
(* (incremental month ledger), called on a transaction collection.         *)
(*                                                                         *)
(* Representation.  A date string "YYYY-MM-DD" is the tuple <<Y, M, D>>    *)
(* (M in 1..12); the absent / empty string is <<>>.  A Date time value is  *)
(* counted in seconds since the epoch (every Date the engine builds has a  *)
(* zero millisecond part).  An optional boolean field is one of "true",    *)
(* "false", "undefined".  Amounts are integers.                            *)
(***************************************************************************)
EXTENDS Integers, Sequences, FiniteSets, TLC

VARIABLES
    transactions,        \* the collection (App state) / the list handed to the engine
    tzOffset,            \* local UTC offset of the runtime, in hours
    call, result,        \* the last engine call and what it returned
    showForm,            \* App state: the transaction form is mounted
    editingTransaction,  \* App state: the transaction being edited, or Null
    preSelectedDate,     \* App state: date handed to a new form, <<>> if undefined
    selectedDayDetails,  \* App state: the day-details modal {date, transactions}, or Null
    file,                \* the spreadsheet last written by exportToExcel, or NoFile
    idsIssued,           \* number of ids generateId has handed out
    chartCenterDate,     \* App state: the chart's center, a local calendar date
    isDragging,          \* App state: a chart drag is going on
    dragStartX,          \* App state: clientX of the mouse-down that began the drag
    dragStartDate,       \* App state: the center when the drag began, <<>> if null
    clientX,             \* the pointer: clientX of the last mouse event on the chart
    localStorage,        \* the item stored under STORAGE_KEY, or NoItem
    pending              \* effects and renders React has scheduled, in order

engineVars == <<transactions, tzOffset, call, result>>

chartVars == <<chartCenterDate, isDragging, dragStartX, dragStartDate, clientX>>

shellVars == <<showForm, editingTransaction, preSelectedDate, selectedDayDetails,
               file, idsIssued, chartCenterDate, isDragging, dragStartX,
               dragStartDate, clientX, localStorage, pending>>

vars == <<transactions, tzOffset, call, result, showForm, editingTransaction,
          preSelectedDate, selectedDayDetails, file, idsIssued, chartCenterDate,
          isDragging, dragStartX, dragStartDate, clientX, localStorage, pending>>

\* ------------------------------------------------------------------ bounds
MaxTxns == 2

\* ------------------------------------------------------------ input sets
TransactionTypes ==
    {"INCOME", "EXPENSE", "LOAN_IN", "LOAN_REPAY", "INVESTMENT", "DEPOSIT", "CUSTOM"}

\* a type code outside the closed set (importFromExcel casts the cell unchecked)
UnknownType == "UNKNOWN"

Flags == {"true", "false", "undefined"}

\* two adjacent days on both sides of a month boundary
Dates == {<<2024, 1, 31>>, <<2024, 2, 1>>}

\* each date carries its own amount, so a total identifies the dates it covers
AmountOn(d) == IF d = <<2024, 1, 31>> THEN 50 ELSE 300

FarFutureDate == <<2030, 1, 1>>

\* targetDate arguments: omitted, before / on a transaction date, or far later
TargetDates == {<<>>, <<2024, 1, 30>>, FarFutureDate} \cup Dates

\* (year, month) arguments, month 0-based as in Date#getMonth:
\* January 2024 (31 days), February 2024 (29), February 2023 (28), April 2024 (30)
Months == {<<2024, 0>>, <<2024, 1>>, <<2023, 1>>, <<2024, 3>>}

\* calendar years the Date computations range over
Years == 2023..2030

\* local UTC offsets of the runtime, in hours (west negative)
TzOffsets == {-5, 0, 8}

TypeFlagCombos ==
    {[type |-> ty, isWithdrawable |-> "undefined", isPositive |-> "undefined"] :
        ty \in (TransactionTypes \ {"INVESTMENT", "CUSTOM"}) \cup {UnknownType}}
    \cup {[type |-> "INVESTMENT", isWithdrawable |-> w, isPositive |-> "undefined"] :
        w \in Flags}
    \cup {[type |-> "CUSTOM", isWithdrawable |-> "undefined", isPositive |-> p] :
        p \in Flags}

Transaction ==
    {[date |-> d, amount |-> AmountOn(d), type |-> c.type,
      isWithdrawable |-> c.isWithdrawable, isPositive |-> c.isPositive] :
        d \in Dates, c \in TypeFlagCombos}

TransactionLists == UNION {[1..n -> Transaction] : n \in 0..MaxTxns}

\* inputs of the sweep runs: the first two days of March 2024, one amount,
\* the two investment kinds and the two plain cash flows
SweepDates == {<<2024, 3, 1>>, <<2024, 3, 2>>}

SweepAmount == 300

SweepCombos ==
    {[type |-> "INVESTMENT", isWithdrawable |-> w, isPositive |-> "undefined"] :
        w \in {"true", "false"}}
    \cup {[type |-> ty, isWithdrawable |-> "undefined", isPositive |-> "undefined"] :
        ty \in {"INCOME", "EXPENSE"}}

SweepTransaction ==
    {[date |-> d, amount |-> SweepAmount, type |-> c.type,
      isWithdrawable |-> c.isWithdrawable, isPositive |-> c.isPositive] :
        d \in SweepDates, c \in SweepCombos}

SweepLists == UNION {[1..n -> SweepTransaction] : n \in 0..MaxTxns}

\* March 2024 and the month after it (whose baseline takes the March transactions)
SweepMonths == {<<2024, 2>>, <<2024, 3>>}

SweepTargetDates == {<<>>} \cup SweepDates

\* ------------------------------------------------------- JavaScript values
\* truthiness of an optional boolean field
Truthy(v) == v = "true"

\* days since 1970-01-01 of the 1st of March-based month mp (0 = March) of
\* the March-based year yy, plus d - 1
DaysFromShifted(yy, mp, d) ==
    365 * yy + yy \div 4 - yy \div 100 + yy \div 400
        + (153 * mp + 2) \div 5 + d - 1 - 719468

\* days since 1970-01-01 of the civil date y-m-d (m in 1..12)
DaysFromCivil(y, m, d) ==
    DaysFromShifted(IF m <= 2 THEN y - 1 ELSE y, IF m > 2 THEN m - 3 ELSE m + 9, d)

\* civil date from the March-based year yy and day-of-year doy
CivilFromYearDay(yy, doy, mp) ==
    <<yy + (IF mp < 10 THEN 0 ELSE 1),
      IF mp < 10 THEN mp + 3 ELSE mp - 9,
      doy - (153 * mp + 2) \div 5 + 1>>

CivilFromEraDay(era, doe, yoe) ==
    CivilFromYearDay(yoe + era * 400,
                     doe - (365 * yoe + yoe \div 4 - yoe \div 100),
                     (5 * (doe - (365 * yoe + yoe \div 4 - yoe \div 100)) + 2) \div 153)

\* the civil date <<y, m, d>> of a day number
CivilFromDays(z) ==
    CivilFromEraDay((z + 719468) \div 146097,
                    (z + 719468) % 146097,
                    (((z + 719468) % 146097) - ((z + 719468) % 146097) \div 1460
                       + ((z + 719468) % 146097) \div 36524
                       - ((z + 719468) % 146097) \div 146096) \div 365)

\* day number of the 1st of every month in range (computed once)
FirstDayOfMonth == [y \in Years, m \in 1..12 |-> DaysFromCivil(y, m, 1)]

\* ECMAScript MakeDay: month is 0-based and may overflow, date may be 0
MakeDay(year, month, date) ==
    FirstDayOfMonth[year + (month \div 12), (month % 12) + 1] + date - 1

\* new Date("YYYY-MM-DD").getTime(): a date-only string is UTC midnight
ParseDateString(s) == (FirstDayOfMonth[s[1], s[2]] + s[3] - 1) * 86400

\* new Date(year, month, date, h, mi, s).getTime(): fields are local time
LocalTime(year, month, date, h, mi, s, tz) ==
    MakeDay(year, month, date) * 86400 + h * 3600 + mi * 60 + s - tz * 3600

\* new Date(year, month, date).getDate() (whole days: the offset cancels)
GetDate(year, month, date) == CivilFromDays(MakeDay(year, month, date))[3]

\* --------------------------------------------------------- calculateBalances
\* case 'INCOME': case 'DEPOSIT':
CaseIncome(acc, amount) ==
    [liquid |-> acc.liquid + amount, netWorth |-> acc.netWorth + amount]

\* case 'EXPENSE':
CaseExpense(acc, amount) ==
    [liquid |-> acc.liquid - amount, netWorth |-> acc.netWorth - amount]

\* variant: a loan booked like income, raising net worth as well
CaseLoanInAsIncome(acc, amount) ==
    [liquid |-> acc.liquid + amount, netWorth |-> acc.netWorth + amount]

\* case 'LOAN_IN':
CaseLoanIn(acc, amount) ==
    [liquid |-> acc.liquid + amount, netWorth |-> acc.netWorth]

\* variant: every investment is a cash outflow, the flag is never read
CaseInvestmentAlwaysOut(acc, amount, isWithdrawable) ==
    [liquid |-> acc.liquid - amount, netWorth |-> acc.netWorth]

\* case 'INVESTMENT': both branches re-test the flag they were entered on
CaseInvestment(acc, amount, isWithdrawable) ==
    IF Truthy(isWithdrawable)
    THEN [liquid   |-> IF ~Truthy(isWithdrawable) THEN acc.liquid - amount
                       ELSE acc.liquid,
          netWorth |-> acc.netWorth]
    ELSE [liquid   |-> IF Truthy(isWithdrawable) THEN (acc.liquid - amount) + amount
                       ELSE acc.liquid - amount,
          netWorth |-> acc.netWorth]

\* variant: the negative branch forgets net worth
CaseCustomLiquidOnly(acc, amount, isPositive) ==
    IF Truthy(isPositive)
    THEN [liquid |-> acc.liquid + amount, netWorth |-> acc.netWorth + amount]
    ELSE [liquid |-> acc.liquid - amount, netWorth |-> acc.netWorth]

\* case 'CUSTOM':
CaseCustom(acc, amount, isPositive) ==
    IF Truthy(isPositive)
    THEN [liquid |-> acc.liquid + amount, netWorth |-> acc.netWorth + amount]
    ELSE [liquid |-> acc.liquid - amount, netWorth |-> acc.netWorth - amount]

\* variant: a default branch that books every other type as an expense
ApplyBalancesDefaultExpense(acc, t) ==
    CASE t.type \in {"INCOME", "DEPOSIT"} -> CaseIncome(acc, t.amount)
      [] t.type = "LOAN_IN"               -> CaseLoanIn(acc, t.amount)
      [] t.type = "INVESTMENT"            -> CaseInvestment(acc, t.amount, t.isWithdrawable)
      [] t.type = "CUSTOM"                -> CaseCustom(acc, t.amount, t.isPositive)
      [] OTHER                            -> CaseExpense(acc, t.amount)

\* the reducer's switch (t.type); it has no case 'LOAN_REPAY' and no default
ApplyBalances(acc, t) ==
    CASE t.type \in {"INCOME", "DEPOSIT"} -> CaseIncome(acc, t.amount)
      [] t.type = "EXPENSE"               -> CaseExpense(acc, t.amount)
      [] t.type = "LOAN_IN"               -> CaseLoanIn(acc, t.amount)
      [] t.type = "INVESTMENT"            -> CaseInvestment(acc, t.amount, t.isWithdrawable)
      [] t.type = "CUSTOM"                -> CaseCustom(acc, t.amount, t.isPositive)
      [] OTHER                            -> acc

\* variant: tDate >= cutoff, dropping the transactions of the cutoff day itself
AfterCutoffExclusive(t, targetDate) ==
    IF targetDate # <<>>
    THEN ParseDateString(t.date) >= ParseDateString(targetDate)
    ELSE FALSE

\* tDate > cutoff, cutoff being Infinity when targetDate is falsy
AfterCutoff(t, targetDate) ==
    IF targetDate # <<>>
    THEN ParseDateString(t.date) > ParseDateString(targetDate)
    ELSE FALSE

RECURSIVE ReduceBalances(_, _, _, _)
ReduceBalances(txns, targetDate, i, acc) ==
    IF i > Len(txns) THEN acc
    ELSE ReduceBalances(txns, targetDate, i + 1,
            IF AfterCutoff(txns[i], targetDate) THEN acc
            ELSE ApplyBalances(acc, txns[i]))

calculateBalances(txns, targetDate) ==
    ReduceBalances(txns, targetDate, 1, [liquid |-> 0, netWorth |-> 0])

\* -------------------------------------------------- getDailyBalancesForMonth
\* variant: new Date(year, month, 0).getDate(), the length of the month before
daysInMonthOfPrevious(year, month) == GetDate(year, month, 0)

\* new Date(year, month + 1, 0).getDate()
daysInMonth(year, month) == GetDate(year, month + 1, 0)

\* new Date(year, month, 1).getTime()
startOfMonth(year, month, tz) == LocalTime(year, month, 1, 0, 0, 0, tz)

\* new Date(year, month, day, 23, 59, 59).getTime()
endOfDay(year, month, day, tz) == LocalTime(year, month, day, 23, 59, 59, tz)

\* `${year}-${pad(month + 1)}-${pad(day)}`
currentDateStr(year, month, day) == <<year, month + 1, day>>

\* [...transactions].sort(by time ascending): stable insertion into a sorted prefix
RECURSIVE InsertByDate(_, _)
InsertByDate(s, t) ==
    IF s = <<>> THEN <<t>>
    ELSE IF ParseDateString(s[Len(s)].date) - ParseDateString(t.date) > 0
         THEN Append(InsertByDate(SubSeq(s, 1, Len(s) - 1), t), s[Len(s)])
         ELSE Append(s, t)

\* variant: the list is swept in the order it was given
SortByDateSkipped(txns) == txns

RECURSIVE SortByDate(_)
SortByDate(txns) ==
    IF txns = <<>> THEN <<>>
    ELSE InsertByDate(SortByDate(SubSeq(txns, 1, Len(txns) - 1)), txns[Len(txns)])

\* body of the baseline loop: the three ifs applied to runningLiquid
BaselineApply(runningLiquid, t) ==
    LET amount == t.amount
        r1 == IF \/ t.type \in {"INCOME", "DEPOSIT", "LOAN_IN"}
                 \/ (t.type = "CUSTOM" /\ Truthy(t.isPositive))
              THEN runningLiquid + amount ELSE runningLiquid
        r2 == IF \/ t.type = "EXPENSE"
                 \/ (t.type = "CUSTOM" /\ ~Truthy(t.isPositive))
              THEN r1 - amount ELSE r1
        r3 == IF t.type = "INVESTMENT"
              THEN (IF Truthy(t.isWithdrawable) THEN (r2 - amount) + amount
                    ELSE r2 - amount)
              ELSE r2
    IN  r3

\* variant: the second if tests isPositive === false, so an absent flag is skipped
DayApplyStrictFalse(runningLiquid, t) ==
    LET amount == t.amount
        r1 == IF \/ t.type \in {"INCOME", "DEPOSIT", "LOAN_IN"}
                 \/ (t.type = "CUSTOM" /\ Truthy(t.isPositive))
              THEN runningLiquid + amount ELSE runningLiquid
        r2 == IF \/ t.type = "EXPENSE"
                 \/ (t.type = "CUSTOM" /\ t.isPositive = "false")
              THEN r1 - amount ELSE r1
        r3 == IF t.type = "INVESTMENT"
              THEN (IF Truthy(t.isWithdrawable) THEN (r2 - amount) + amount
                    ELSE r2 - amount)
              ELSE r2
    IN  r3

\* variant: a withdrawable investment is credited instead of cancelling out
DayApplyInvestmentCredit(runningLiquid, t) ==
    LET amount == t.amount
        r1 == IF \/ t.type \in {"INCOME", "DEPOSIT", "LOAN_IN"}
                 \/ (t.type = "CUSTOM" /\ Truthy(t.isPositive))
              THEN runningLiquid + amount ELSE runningLiquid
        r2 == IF \/ t.type = "EXPENSE"
                 \/ (t.type = "CUSTOM" /\ ~Truthy(t.isPositive))
              THEN r1 - amount ELSE r1
        r3 == IF t.type = "INVESTMENT"
              THEN (IF Truthy(t.isWithdrawable) THEN r2 + amount
                    ELSE r2 - amount)
              ELSE r2
    IN  r3

\* body of the per-day loop: the same three ifs
DayApply(runningLiquid, t) ==
    LET amount == t.amount
        r1 == IF \/ t.type \in {"INCOME", "DEPOSIT", "LOAN_IN"}
                 \/ (t.type = "CUSTOM" /\ Truthy(t.isPositive))
              THEN runningLiquid + amount ELSE runningLiquid
        r2 == IF \/ t.type = "EXPENSE"
                 \/ (t.type = "CUSTOM" /\ ~Truthy(t.isPositive))
              THEN r1 - amount ELSE r1
        r3 == IF t.type = "INVESTMENT"
              THEN (IF Truthy(t.isWithdrawable) THEN (r2 - amount) + amount
                    ELSE r2 - amount)
              ELSE r2
    IN  r3

\* while (tIndex < sorted.length && time(sorted[tIndex]) < startOfMonth)
RECURSIVE BaselineLoop(_, _, _, _)
BaselineLoop(sorted, start, tIndex, runningLiquid) ==
    IF tIndex < Len(sorted) /\ ParseDateString(sorted[tIndex + 1].date) < start
    THEN BaselineLoop(sorted, start, tIndex + 1,
                      BaselineApply(runningLiquid, sorted[tIndex + 1]))
    ELSE [tIndex |-> tIndex, runningLiquid |-> runningLiquid]

\* while (tIndex < sorted.length && time(sorted[tIndex]) <= endOfDay)
RECURSIVE DayLoop(_, _, _, _)
DayLoop(sorted, end, tIndex, runningLiquid) ==
    IF tIndex < Len(sorted) /\ ParseDateString(sorted[tIndex + 1].date) <= end
    THEN DayLoop(sorted, end, tIndex + 1,
                 DayApply(runningLiquid, sorted[tIndex + 1]))
    ELSE [tIndex |-> tIndex, runningLiquid |-> runningLiquid]

\* variant: map.set only on days whose loop consumed a transaction
RECURSIVE IterateDaysSparse(_, _, _, _, _, _, _, _)
IterateDaysSparse(sorted, year, month, tz, last, day, cur, map) ==
    IF day > last THEN map
    ELSE LET after == DayLoop(sorted, endOfDay(year, month, day, tz),
                              cur.tIndex, cur.runningLiquid)
             set   == IF after.tIndex > cur.tIndex
                      THEN (currentDateStr(year, month, day) :> after.runningLiquid) @@ map
                      ELSE map
         IN  IterateDaysSparse(sorted, year, month, tz, last, day + 1, after, set)

\* for (day = 1; day <= daysInMonth; day++) { ...; map.set(currentDateStr, runningLiquid) }
RECURSIVE IterateDays(_, _, _, _, _, _, _, _)
IterateDays(sorted, year, month, tz, last, day, cur, map) ==
    IF day > last THEN map
    ELSE LET after == DayLoop(sorted, endOfDay(year, month, day, tz),
                              cur.tIndex, cur.runningLiquid)
             set   == (currentDateStr(year, month, day) :> after.runningLiquid) @@ map
         IN  IterateDays(sorted, year, month, tz, last, day + 1, after, set)

\* the sweep's locals {tIndex, runningLiquid} at the moment day's balance is
\* recorded; day 0 stands for the end of the baseline loop
RECURSIVE SweepCursor(_, _, _, _, _)
SweepCursor(sorted, year, month, tz, day) ==
    IF day = 0 THEN BaselineLoop(sorted, startOfMonth(year, month, tz), 0, 0)
    ELSE LET before == SweepCursor(sorted, year, month, tz, day - 1)
         IN  DayLoop(sorted, endOfDay(year, month, day, tz),
                     before.tIndex, before.runningLiquid)

getDailyBalancesForMonth(txns, year, month, tz) ==
    LET sorted   == SortByDate(txns)
        baseline == BaselineLoop(sorted, startOfMonth(year, month, tz), 0, 0)
    IN  IterateDays(sorted, year, month, tz, daysInMonth(year, month), 1, baseline, <<>>)

\* ------------------------------------------------------------------ actions
NoCall == [op |-> "none"]

\* null, for editingTransaction and selectedDayDetails
Null == [null |-> TRUE]

\* no spreadsheet has been written
NoFile == [written |-> FALSE]

\* localStorage.getItem gives null: nothing is stored under the key
NoItem == [item |-> FALSE]

\* new Date() when App is constructed: the local calendar date of that moment
ChartToday == <<2024, 2, 1>>

\* the App state after construction (useState initial values), nothing
\* exported, the pointer not yet on the chart
ShellInitial ==
    /\ showForm = FALSE
    /\ editingTransaction = Null
    /\ preSelectedDate = <<>>
    /\ selectedDayDetails = Null
    /\ file = NoFile
    /\ idsIssued = 0
    /\ chartCenterDate = ChartToday
    /\ isDragging = FALSE
    /\ dragStartX = 0
    /\ dragStartDate = <<>>
    /\ clientX = 0

\* the engine called on a list by itself: no App is mounted, nothing stored
NoApp ==
    /\ localStorage = NoItem
    /\ pending = <<>>

Init ==
    /\ transactions \in TransactionLists
    /\ tzOffset \in TzOffsets
    /\ call = NoCall
    /\ result = NoCall
    /\ ShellInitial
    /\ NoApp

\* variant: const sorted = transactions.sort(...), sorting the caller's array
CallerListSortedInPlace(txns) == SortByDate(txns)

\* the caller's array after const sorted = [...transactions].sort(...):
\* the sort works on a copy
CallerListAfterSort(txns) == txns

\* calculateBalances(transactions, targetDate): reduce reads the list only
DoCalculateBalances(targetDate) ==
    /\ call' = [op |-> "calculateBalances", targetDate |-> targetDate]
    /\ result' = calculateBalances(transactions, targetDate)
    /\ UNCHANGED <<transactions, tzOffset>>
    /\ UNCHANGED shellVars

\* getDailyBalancesForMonth(transactions, year, month)
DoGetDailyBalancesForMonth(ym) ==
    /\ call' = [op |-> "getDailyBalancesForMonth", year |-> ym[1], month |-> ym[2]]
    /\ result' = getDailyBalancesForMonth(transactions, ym[1], ym[2], tzOffset)
    /\ transactions' = CallerListAfterSort(transactions)
    /\ UNCHANGED tzOffset
    /\ UNCHANGED shellVars

\* one engine call on the collection: calculateBalances(transactions, targetDate)
CalculateBalances ==
    \E targetDate \in TargetDates :
        /\ call = NoCall
        /\ DoCalculateBalances(targetDate)

\* one engine call: getDailyBalancesForMonth(transactions, year, month)
GetDailyBalancesForMonth ==
    \E ym \in Months :
        /\ call = NoCall
        /\ DoGetDailyBalancesForMonth(ym)

Next == CalculateBalances \/ GetDailyBalancesForMonth

Spec == Init /\ [][Next]_vars

\* ---------------------------------------------------------------- sweep runs
\* engine calls, one after another, on lists dated in the first days of March 2024
SweepInit ==
    /\ transactions \in SweepLists
    /\ tzOffset \in TzOffsets
    /\ call = NoCall
    /\ result = NoCall
    /\ ShellInitial
    /\ NoApp

SweepCalculateBalances ==
    \E targetDate \in SweepTargetDates : DoCalculateBalances(targetDate)

SweepGetDailyBalancesForMonth ==
    \E ym \in SweepMonths : DoGetDailyBalancesForMonth(ym)

SweepNext == SweepCalculateBalances \/ SweepGetDailyBalancesForMonth

SpecSweep == SweepInit /\ [][SweepNext]_vars

\* ================================================================ the shell
\* The App component (src/App.tsx), its transaction form and the spreadsheet
\* functions.  A collection entry carries an id next to the engine's fields.
\* A spreadsheet row is a record of cells: ID and Type are strings ("" for an
\* empty or absent cell), Date is a date tuple (<<>> if absent), Amount is
\* <<n>> for a numeric cell and <<>> for an absent one, Withdrawable and
\* IsPositive hold "Yes", "No" or "".

\* longest collection the handlers are let to build
MaxCollection == 2

\* generateId(): the n-th id handed out; time stamp plus random suffix, taken
\* to be distinct from every id handed out before and from spreadsheet ids
generateId(n) == "g" \o ToString(n)

\* parseFloat of the amount field's text
parseFloat(text) ==
    CASE text = "50"  -> 50
      [] text = "300" -> 300
      [] text = "-50" -> 0 - 50

\* what the user may have in the form's fields when submitting: the amount
\* text (type="number", required, no min), type, date, the two checkboxes and
\* the two text fields. A field hidden for the chosen type keeps the state
\* it got under an earlier choice of type or from the edited transaction.
FormEntries ==
    {[type |-> "LOAN_REPAY", amount |-> "50", date |-> <<2024, 1, 31>>,
      isWithdrawable |-> FALSE, isPositive |-> FALSE,
      lender |-> "Bob", customName |-> ""],
     [type |-> "INVESTMENT", amount |-> "300", date |-> <<2024, 2, 1>>,
      isWithdrawable |-> TRUE, isPositive |-> TRUE,
      lender |-> "Bob", customName |-> "Gift"],
     [type |-> "CUSTOM", amount |-> "-50", date |-> <<2024, 2, 1>>,
      isWithdrawable |-> TRUE, isPositive |-> TRUE,
      lender |-> "Bob", customName |-> "Gift"],
     [type |-> "INCOME", amount |-> "", date |-> <<2024, 1, 31>>,
      isWithdrawable |-> FALSE, isPositive |-> FALSE,
      lender |-> "", customName |-> ""]}

\* a boolean as the optional field holds it
FlagOf(b) == IF b THEN "true" ELSE "false"

\* variant: the form's fields are copied whatever the type
NewTransactionAllFields(form, id) ==
    [id |-> id,
     date |-> form.date,
     type |-> form.type,
     amount |-> parseFloat(form.amount),
     lender |-> form.lender,
     isWithdrawable |-> FlagOf(form.isWithdrawable),
     customName |-> form.customName,
     isPositive |-> FlagOf(form.isPositive)]

\* handleSubmit: the Transaction built from the form's fields; an optional
\* attribute is the string "undefined" when the literal gives undefined
NewTransaction(form, id) ==
    [id |-> id,
     date |-> form.date,
     type |-> form.type,
     amount |-> parseFloat(form.amount),
     lender |-> IF form.type = "LOAN_IN" \/ form.type = "LOAN_REPAY"
                THEN form.lender ELSE "undefined",
     isWithdrawable |-> IF form.type = "INVESTMENT" THEN FlagOf(form.isWithdrawable)
                        ELSE "undefined",
     customName |-> IF form.type = "CUSTOM" THEN form.customName ELSE "undefined",
     isPositive |-> IF form.type = "CUSTOM" THEN FlagOf(form.isPositive)
                    ELSE "undefined"]

\* prev.findIndex(item => item.id === t.id), 1-based; 0 when there is none
FindIndex(prev, id) ==
    IF \E i \in 1..Len(prev) : prev[i].id = id
    THEN CHOOSE i \in 1..Len(prev) :
            /\ prev[i].id = id
            /\ \A j \in 1..(i - 1) : prev[j].id /= id
    ELSE 0

\* variant: the saved transaction is always pushed at the end, the entry it
\* replaces being dropped
SavedCollectionMovedToEnd(prev, t) ==
    Append(SelectSeq(prev, LAMBDA item : item.id /= t.id), t)

\* handleSaveTransaction: the array the updater returns
SavedCollection(prev, t) ==
    LET index == FindIndex(prev, t.id)
    IN  IF index >= 1 THEN [prev EXCEPT ![index] = t]
        ELSE Append(prev, t)

\* arr.filter(tr => tr.date === date)
OnDate(arr, date) == SelectSeq(arr, LAMBDA tr : tr.date = date)

\* handleSaveTransaction: the day-details modal follows a save on its date
DetailsAfterSave(details, newArr, t) ==
    IF details /= Null /\ details.date = t.date
    THEN [date |-> t.date, transactions |-> OnDate(newArr, t.date)]
    ELSE details

\* handleDelete: the modal is refreshed, and closed when its day is empty
DetailsAfterDelete(details, newArr) ==
    IF details /= Null
    THEN IF OnDate(newArr, details.date) = <<>> THEN Null
         ELSE [date |-> details.date, transactions |-> OnDate(newArr, details.date)]
    ELSE details

\* ------------------------------------------------------------- spreadsheets
\* t.lender || '', t.customName || '': an undefined text is written as ''
TextOrEmpty(text) == IF text = "undefined" THEN "" ELSE text

\* row['...'] of a text column: an empty cell is not in the row object
CellText(cell) == IF cell = "" THEN "undefined" ELSE cell

\* variant: the Withdrawable cell is written as 'true' / 'false'
ExportRowFlagAsText(t) ==
    [ID |-> t.id,
     Date |-> t.date,
     Type |-> t.type,
     Amount |-> <<t.amount>>,
     Lender |-> TextOrEmpty(t.lender),
     CustomName |-> TextOrEmpty(t.customName),
     Withdrawable |-> IF Truthy(t.isWithdrawable) THEN "true" ELSE "false",
     IsPositive |-> IF t.type = "CUSTOM"
                    THEN (IF Truthy(t.isPositive) THEN "Yes" ELSE "No")
                    ELSE ""]

\* exportToExcel: the row written for one transaction
ExportRow(t) ==
    [ID |-> t.id,
     Date |-> t.date,
     Type |-> t.type,
     Amount |-> <<t.amount>>,
     Lender |-> TextOrEmpty(t.lender),
     CustomName |-> TextOrEmpty(t.customName),
     Withdrawable |-> IF Truthy(t.isWithdrawable) THEN "Yes" ELSE "No",
     IsPositive |-> IF t.type = "CUSTOM"
                    THEN (IF Truthy(t.isPositive) THEN "Yes" ELSE "No")
                    ELSE ""]

\* no export range: exportStart or exportEnd is empty
NoRange == [start |-> <<>>, end |-> <<>>]

\* the range the export inputs can hold
ExportRanges == {NoRange, [start |-> <<2024, 2, 1>>, end |-> <<2024, 2, 1>>]}

\* exportToExcel(transactions, range): the rows of the sheet it writes
exportToExcel(txns, range) ==
    LET start == ParseDateString(range.start)
        end   == ParseDateString(range.end)
        dataToExport ==
            IF range = NoRange THEN txns
            ELSE SelectSeq(txns, LAMBDA t :
                    /\ ParseDateString(t.date) >= start
                    /\ ParseDateString(t.date) <= end)
    IN  [i \in 1..Len(dataToExport) |-> ExportRow(dataToExport[i])]

\* Number(cell) || 0
NumberOrZero(cell) == IF cell = <<>> THEN 0 ELSE cell[1]

\* importFromExcel: the Transaction built from one row, id being row['ID']
\* or the generated one
ImportRow(row, id, today) ==
    [id |-> id,
     date |-> IF row.Date /= <<>> THEN row.Date ELSE today,
     type |-> row.Type,
     amount |-> NumberOrZero(row.Amount),
     lender |-> CellText(row.Lender),
     isWithdrawable |-> FlagOf(row.Withdrawable = "Yes"),
     customName |-> CellText(row.CustomName),
     isPositive |-> FlagOf(row.IsPositive = "Yes")]

\* json.map(row => ...): rows in order; issued counts the ids generated
RECURSIVE ImportRows(_, _, _, _, _)
ImportRows(rows, i, issued, today, acc) ==
    IF i > Len(rows) THEN [transactions |-> acc, issued |-> issued]
    ELSE IF rows[i].ID /= ""
         THEN ImportRows(rows, i + 1, issued, today,
                         Append(acc, ImportRow(rows[i], rows[i].ID, today)))
         ELSE ImportRows(rows, i + 1, issued + 1, today,
                         Append(acc, ImportRow(rows[i], generateId(issued + 1), today)))

importFromExcel(rows, issued, today) == ImportRows(rows, 1, issued, today, <<>>)

\* new Date().toISOString().split('T')[0] on the day of an import
Todays == {<<2024, 2, 1>>}

\* spreadsheets the user has at hand besides the exported one
SheetA ==
    <<[ID |-> "x1", Date |-> <<2024, 1, 31>>, Type |-> "LOAN_REPAY",
       Amount |-> <<50>>, Lender |-> "Bob", CustomName |-> "",
       Withdrawable |-> "No", IsPositive |-> ""]>>

SheetB ==
    <<[ID |-> "", Date |-> <<>>, Type |-> "INCOME",
       Amount |-> <<0 - 50>>, Lender |-> "", CustomName |-> "",
       Withdrawable |-> "", IsPositive |-> ""]>>

ExternalSheets == {SheetA, SheetB}

\* e.target.files[0]: a sheet at hand, or the file this session exported
PickableFiles == ExternalSheets \cup (IF file = NoFile THEN {} ELSE {file.rows})

\* generateId is asked for at most this many ids
IdLimit == MaxCollection

\* ------------------------------------------------------------------ storage
\* the optional attributes of a Transaction
OptionalFields == {"lender", "isWithdrawable", "customName", "isPositive"}

\* JSON.stringify of one transaction: an attribute whose value is undefined
\* is left out of the object
StringifyTransaction(t) ==
    [f \in {g \in DOMAIN t : g \notin OptionalFields \/ t[g] /= "undefined"} |-> t[f]]

\* JSON.stringify(transactions), the item the save effect stores
JSONstringify(txns) ==
    [item |-> TRUE, json |-> [i \in 1..Len(txns) |-> StringifyTransaction(txns[i])]]

\* one parsed object read as a Transaction: an attribute that is not in the
\* object reads as undefined
ParsedTransaction(o) ==
    [f \in DOMAIN o \cup OptionalFields |->
        IF f \in DOMAIN o THEN o[f] ELSE "undefined"]

\* JSON.parse(stored) of an item that holds JSON text
JSONparse(stored) ==
    [i \in 1..Len(stored.json) |-> ParsedTransaction(stored.json[i])]

\* an item that is not JSON text: JSON.parse throws
CorruptItem == [item |-> TRUE, text |-> "{"]

\* the save effect: localStorage.setItem(STORAGE_KEY, JSON.stringify(transactions)),
\* run after the render that follows setTransactions(newArr)
SaveEffect(newArr) == localStorage' = JSONstringify(newArr)

\* ----------------------------------------------------------- shell actions
\* the shell makes no recorded engine call: stats and the chart are derived;
\* the form and collection handlers leave the chart alone and schedule
\* nothing beyond the save effect they are followed by
ShellFrame == UNCHANGED <<tzOffset, call, result, chartCenterDate, isDragging,
                          dragStartX, dragStartDate, clientX, pending>>

\* the "add" button: onClick of App.tsx line 326
OpenNewForm ==
    /\ editingTransaction' = Null
    /\ preSelectedDate' = <<>>
    /\ showForm' = TRUE
    /\ UNCHANGED <<transactions, localStorage, selectedDayDetails, file, idsIssued>>
    /\ ShellFrame

\* handleEdit(t), from a history row or from a row of the day-details modal
HandleEdit ==
    \E t \in {transactions[i] : i \in 1..Len(transactions)}
            \cup (IF selectedDayDetails /= Null /\ ~showForm
                  THEN {selectedDayDetails.transactions[i] :
                            i \in 1..Len(selectedDayDetails.transactions)}
                  ELSE {}) :
        /\ editingTransaction' = t
        /\ preSelectedDate' = <<>>
        /\ showForm' = TRUE
        /\ UNCHANGED <<transactions, localStorage, selectedDayDetails, file, idsIssued>>
        /\ ShellFrame

\* variant: closing the form hides it and keeps the edit target and the date
HandleCloseFormKeepsTarget ==
    /\ showForm
    /\ showForm' = FALSE
    /\ UNCHANGED <<editingTransaction, preSelectedDate>>
    /\ UNCHANGED <<transactions, localStorage, selectedDayDetails, file, idsIssued>>
    /\ ShellFrame

\* handleCloseForm, the form's close button
HandleCloseForm ==
    /\ showForm
    /\ showForm' = FALSE
    /\ editingTransaction' = Null
    /\ preSelectedDate' = <<>>
    /\ UNCHANGED <<transactions, localStorage, selectedDayDetails, file, idsIssued>>
    /\ ShellFrame

\* handleDayClick(date, dayTransactions), called by the calendar with the
\* collection's transactions of that date
HandleDayClick ==
    \E date \in Dates :
        LET dayTransactions == OnDate(transactions, date)
        IN  /\ IF Len(dayTransactions) > 0
               THEN /\ selectedDayDetails' = [date |-> date,
                                              transactions |-> dayTransactions]
                    /\ UNCHANGED <<preSelectedDate, editingTransaction, showForm>>
               ELSE /\ preSelectedDate' = date
                    /\ editingTransaction' = Null
                    /\ showForm' = TRUE
                    /\ UNCHANGED selectedDayDetails
            /\ UNCHANGED <<transactions, localStorage, file, idsIssued>>
            /\ ShellFrame

\* handleAddFromDayDetails, the modal's "Add Another Entry" button
HandleAddFromDayDetails ==
    /\ selectedDayDetails /= Null
    /\ ~showForm
    /\ preSelectedDate' = selectedDayDetails.date
    /\ editingTransaction' = Null
    /\ showForm' = TRUE
    /\ UNCHANGED <<transactions, localStorage, selectedDayDetails, file, idsIssued>>
    /\ ShellFrame

\* the modal's close button: setSelectedDayDetails(null)
CloseDayDetails ==
    /\ selectedDayDetails /= Null
    /\ ~showForm
    /\ selectedDayDetails' = Null
    /\ UNCHANGED <<transactions, localStorage, showForm, editingTransaction, preSelectedDate,
                   file, idsIssued>>
    /\ ShellFrame

\* TransactionForm.handleSubmit: an empty amount returns at once; otherwise
\* onSave(newTransaction) = handleSaveTransaction, then onClose() =
\* handleCloseForm
HandleSubmit ==
    \E form \in FormEntries :
        /\ showForm
        /\ IF form.amount = ""
           THEN UNCHANGED vars
           ELSE LET editing == editingTransaction /= Null /\ editingTransaction.id /= ""
                    id == IF editing THEN editingTransaction.id
                          ELSE generateId(idsIssued + 1)
                    t == NewTransaction(form, id)
                    newArr == SavedCollection(transactions, t)
                IN  /\ editing \/ idsIssued < IdLimit
                    /\ Len(newArr) <= MaxCollection
                    /\ idsIssued' = IF editing THEN idsIssued ELSE idsIssued + 1
                    /\ transactions' = newArr
                    /\ SaveEffect(newArr)
                    /\ selectedDayDetails' = DetailsAfterSave(selectedDayDetails, newArr, t)
                    /\ editingTransaction' = Null
                    /\ showForm' = FALSE
                    /\ preSelectedDate' = <<>>
                    /\ UNCHANGED file
                    /\ ShellFrame

\* variant: only the first transaction with the id is removed
DeletedCollectionFirstOnly(prev, id) ==
    LET index == FindIndex(prev, id)
    IN  IF index = 0 THEN prev
        ELSE [j \in 1..(Len(prev) - 1) |-> IF j < index THEN prev[j] ELSE prev[j + 1]]

\* handleDelete: prev.filter(t => t.id !== id)
DeletedCollection(prev, id) == SelectSeq(prev, LAMBDA t : t.id /= id)

\* handleDelete(id, e) with confirm() answering confirmed
DoHandleDelete(id, confirmed) ==
    IF confirmed
    THEN LET newArr == DeletedCollection(transactions, id)
         IN  /\ transactions' = newArr
             /\ SaveEffect(newArr)
             /\ selectedDayDetails' = DetailsAfterDelete(selectedDayDetails, newArr)
             /\ UNCHANGED <<showForm, editingTransaction, preSelectedDate,
                            file, idsIssued>>
             /\ ShellFrame
    ELSE UNCHANGED vars

\* handleDelete(id, e) on a history row; confirm() answers either way
HandleDelete ==
    \E i \in 1..Len(transactions), confirmed \in BOOLEAN :
        DoHandleDelete(transactions[i].id, confirmed)

\* handleExport: exportToExcel(transactions, range) writes the file
HandleExport ==
    \E range \in ExportRanges :
        /\ file' = [written |-> TRUE, rows |-> exportToExcel(transactions, range)]
        /\ UNCHANGED <<transactions, localStorage, showForm, editingTransaction, preSelectedDate,
                       selectedDayDetails, idsIssued>>
        /\ ShellFrame

\* variant: a merge puts the imported transactions first
ImportedCollectionImportedFirst(prev, imported, replace) ==
    IF replace THEN imported ELSE imported \o prev

\* handleImport: setTransactions(imported) when confirm() is accepted,
\* setTransactions(prev => [...prev, ...imported]) otherwise
ImportedCollection(prev, imported, replace) ==
    IF replace THEN imported ELSE prev \o imported

\* handleImport of a picked file: importFromExcel rejects when the file
\* cannot be read or parsed (the catch alerts and sets nothing); otherwise
\* confirm() chooses between replacing the collection and appending to it
DoHandleImport(rows, today, replace, readable) ==
    IF readable
    THEN LET imported == importFromExcel(rows, idsIssued, today)
             newArr == ImportedCollection(transactions, imported.transactions, replace)
         IN  /\ imported.issued <= IdLimit
             /\ Len(newArr) <= MaxCollection
             /\ transactions' = newArr
             /\ SaveEffect(newArr)
             /\ idsIssued' = imported.issued
             /\ UNCHANGED <<showForm, editingTransaction, preSelectedDate,
                            selectedDayDetails, file>>
             /\ ShellFrame
    ELSE UNCHANGED vars

HandleImport ==
    \E rows \in PickableFiles, today \in Todays, replace \in BOOLEAN,
       readable \in BOOLEAN :
        DoHandleImport(rows, today, replace, readable)

\* the collection starts empty (nothing stored), the App state as constructed
ShellInit ==
    /\ transactions = <<>>
    /\ tzOffset = 0
    /\ call = NoCall
    /\ result = NoCall
    /\ ShellInitial
    /\ localStorage = JSONstringify(transactions)
    /\ pending = <<>>

ShellNext ==
    \/ OpenNewForm
    \/ HandleEdit
    \/ HandleCloseForm
    \/ HandleDayClick
    \/ HandleAddFromDayDetails
    \/ CloseDayDetails
    \/ HandleSubmit
    \/ HandleDelete
    \/ HandleImport

SpecShell == ShellInit /\ [][ShellNext]_vars

\* ------------------------------------------------------ spreadsheet runs
\* collections as the form and the import leave them: the form sets the flag
\* of its type only, the import sets both flags on every row
ExcelTransaction ==
    {[id |-> "g1", type |-> "LOAN_REPAY", amount |-> 50, date |-> <<2024, 1, 31>>,
      lender |-> "Bob", customName |-> "undefined",
      isWithdrawable |-> "undefined", isPositive |-> "undefined"],
     [id |-> "g2", type |-> "INVESTMENT", amount |-> 300, date |-> <<2024, 2, 1>>,
      lender |-> "undefined", customName |-> "undefined",
      isWithdrawable |-> "true", isPositive |-> "undefined"],
     [id |-> "x1", type |-> "INVESTMENT", amount |-> 300, date |-> <<2024, 1, 31>>,
      lender |-> "undefined", customName |-> "undefined",
      isWithdrawable |-> "false", isPositive |-> "false"],
     [id |-> "g1", type |-> "CUSTOM", amount |-> 50, date |-> <<2024, 2, 1>>,
      lender |-> "undefined", customName |-> "Gift",
      isWithdrawable |-> "undefined", isPositive |-> "true"],
     [id |-> "g2", type |-> "CUSTOM", amount |-> 0, date |-> <<2024, 1, 31>>,
      lender |-> "undefined", customName |-> "Gift",
      isWithdrawable |-> "undefined", isPositive |-> "false"],
     [id |-> "x1", type |-> "INCOME", amount |-> 0 - 50, date |-> <<2024, 2, 1>>,
      lender |-> "undefined", customName |-> "undefined",
      isWithdrawable |-> "false", isPositive |-> "false"],
     [id |-> "x2", type |-> "", amount |-> 50, date |-> <<2024, 1, 31>>,
      lender |-> "undefined", customName |-> "undefined",
      isWithdrawable |-> "true", isPositive |-> "true"]}

ExcelLists == UNION {[1..n -> ExcelTransaction] : n \in 0..MaxCollection}

\* a collection already built, nothing exported yet
ExcelInit ==
    /\ transactions \in ExcelLists
    /\ tzOffset = 0
    /\ call = NoCall
    /\ result = NoCall
    /\ ShellInitial
    /\ localStorage = JSONstringify(transactions)
    /\ pending = <<>>

ExcelNext == HandleExport \/ HandleImport

SpecExcel == ExcelInit /\ [][ExcelNext]_vars

\* ------------------------------------------------------------ chart panning
\* farthest the center is dragged from the day the App was opened, in days
MaxPan == 2

\* const pixelsPerDay = 20
pixelsPerDay == 20

\* e.clientX of the mouse events the chart receives
ClientXs == {0, 10, 25, 50}

\* variant: the quotient is cut off toward zero
MathRoundTowardZero(n, d) == IF n >= 0 THEN n \div d ELSE 0 - ((0 - n) \div d)

\* Math.round(n / d) for d > 0: the nearest integer, a half going up
MathRound(n, d) == (2 * n + d) \div (2 * d)

\* copy.setDate(date.getDate() + n) on a copy of date
AddDays(date, n) == CivilFromDays(DaysFromCivil(date[1], date[2], date[3]) + n)

\* calendar days from a to b
DaysBetween(a, b) == DaysFromCivil(b[1], b[2], b[3]) - DaysFromCivil(a[1], a[2], a[3])

\* the chart handlers leave the collection, the form and the store alone
ChartFrame ==
    UNCHANGED <<transactions, tzOffset, call, result, showForm, editingTransaction,
                preSelectedDate, selectedDayDetails, file, idsIssued,
                localStorage, pending>>

\* handleMouseDown(e) with e.clientX = x
DoHandleMouseDown(x) ==
    /\ isDragging' = TRUE
    /\ dragStartX' = x
    /\ dragStartDate' = chartCenterDate
    /\ clientX' = x
    /\ UNCHANGED chartCenterDate
    /\ ChartFrame

HandleMouseDown == \E x \in ClientXs : DoHandleMouseDown(x)

\* handleMouseMove(e) with e.clientX = x
DoHandleMouseMove(x) ==
    /\ clientX' = x
    /\ IF ~isDragging \/ dragStartDate = <<>>
       THEN UNCHANGED <<chartCenterDate, isDragging, dragStartX, dragStartDate>>
       ELSE LET deltaX == x - dragStartX
                daysShift == MathRound(deltaX, pixelsPerDay)
                newCenter == AddDays(dragStartDate, 0 - daysShift)
            IN  /\ DaysBetween(ChartToday, newCenter) \in (0 - MaxPan)..MaxPan
                /\ chartCenterDate' = newCenter
                /\ UNCHANGED <<isDragging, dragStartX, dragStartDate>>
    /\ ChartFrame

HandleMouseMove == \E x \in ClientXs : DoHandleMouseMove(x)

\* handleMouseUp, on the root element's mouseup and mouseleave
HandleMouseUp ==
    /\ isDragging' = FALSE
    /\ dragStartDate' = <<>>
    /\ UNCHANGED <<chartCenterDate, dragStartX, clientX>>
    /\ ChartFrame

\* resetChartToToday, the click of a button: the mouse-up that comes before
\* the click has ended any drag
ResetChartToToday ==
    /\ ~isDragging
    /\ chartCenterDate' = ChartToday
    /\ UNCHANGED <<isDragging, dragStartX, dragStartDate, clientX>>
    /\ ChartFrame

ChartInit ==
    /\ transactions = <<>>
    /\ tzOffset = 0
    /\ call = NoCall
    /\ result = NoCall
    /\ ShellInitial
    /\ localStorage = JSONstringify(transactions)
    /\ pending = <<>>

ChartNext ==
    \/ HandleMouseDown
    \/ HandleMouseMove
    \/ HandleMouseUp
    \/ ResetChartToToday

SpecChart == ChartInit /\ [][ChartNext]_vars

\* ---------------------------------------------------------------- startup
\* transactions an earlier session has stored
StoredLoan ==
    [id |-> "x1", date |-> <<2024, 1, 31>>, type |-> "LOAN_REPAY", amount |-> 50,
     lender |-> "Bob", isWithdrawable |-> "undefined",
     customName |-> "undefined", isPositive |-> "undefined"]

StoredInvestment ==
    [id |-> "x2", date |-> <<2024, 2, 1>>, type |-> "INVESTMENT", amount |-> 300,
     lender |-> "undefined", isWithdrawable |-> "true",
     customName |-> "undefined", isPositive |-> "undefined"]

\* the non-empty collections the store may hold when the App mounts; the
\* last is what importing one sheet twice, merging, has left
StoredCollections ==
    {<<StoredLoan>>, <<StoredInvestment, StoredLoan>>, <<StoredLoan, StoredLoan>>}

\* what may be under STORAGE_KEY when the App mounts
StoredItems ==
    {NoItem, CorruptItem, JSONstringify(<<>>)}
        \cup {JSONstringify(c) : c \in StoredCollections}

LoadEffectItem == [effect |-> "load"]
SaveEffectItem == [effect |-> "save"]

\* the effects of the first render, in the order they are declared
MountEffects == <<LoadEffectItem, SaveEffectItem>>

\* variant: the load effect reads the store and sets nothing
LoadedCollectionDropped(stored) == <<>>

\* the load effect: the values it hands to setTransactions, none when the
\* item is null or JSON.parse throws
LoadedCollection(stored) ==
    IF stored = NoItem \/ stored = CorruptItem THEN <<>>
    ELSE <<[render |-> JSONparse(stored)]>>

\* the load effect runs; a setTransactions it makes is a render to come
RunLoadEffect ==
    /\ pending /= <<>>
    /\ Head(pending) = LoadEffectItem
    /\ pending' = Tail(pending) \o LoadedCollection(localStorage)
    /\ UNCHANGED <<transactions, localStorage, tzOffset, call, result, showForm,
                   editingTransaction, preSelectedDate, selectedDayDetails, file,
                   idsIssued>>
    /\ UNCHANGED chartVars

\* the save effect of the last render runs
RunSaveEffect ==
    /\ pending /= <<>>
    /\ Head(pending) = SaveEffectItem
    /\ SaveEffect(transactions)
    /\ pending' = Tail(pending)
    /\ UNCHANGED <<transactions, tzOffset, call, result, showForm,
                   editingTransaction, preSelectedDate, selectedDayDetails, file,
                   idsIssued>>
    /\ UNCHANGED chartVars

\* the render after the load effect's setTransactions: the collection
\* changes, so the save effect is due again
Rerender ==
    /\ pending /= <<>>
    /\ "render" \in DOMAIN Head(pending)
    /\ transactions' = Head(pending).render
    /\ pending' = Tail(pending) \o <<SaveEffectItem>>
    /\ UNCHANGED <<localStorage, tzOffset, call, result, showForm,
                   editingTransaction, preSelectedDate, selectedDayDetails, file,
                   idsIssued>>
    /\ UNCHANGED chartVars

\* a handler of the form, the modal or the history list runs once the
\* scheduled effects and renders are done
SettledHandler ==
    /\ pending = <<>>
    /\ \/ OpenNewForm
       \/ HandleEdit
       \/ HandleCloseForm
       \/ HandleDayClick
       \/ HandleAddFromDayDetails
       \/ CloseDayDetails
       \/ HandleSubmit
       \/ HandleDelete

\* the App mounts on a store an earlier session may have filled
StorageInit ==
    /\ transactions = <<>>
    /\ tzOffset = 0
    /\ call = NoCall
    /\ result = NoCall
    /\ ShellInitial
    /\ localStorage \in StoredItems
    /\ pending = MountEffects

StorageNext ==
    \/ RunLoadEffect
    \/ RunSaveEffect
    \/ Rerender
    \/ SettledHandler

\* React runs every effect and render it has scheduled
SpecStorage ==
    /\ StorageInit
    /\ [][StorageNext]_vars
    /\ WF_vars(RunLoadEffect)
    /\ WF_vars(RunSaveEffect)
    /\ WF_vars(Rerender)

\* ------------------------------------------------------- derived views
\* reduce((sum, x) => sum + x, 0) over the list of terms
SumOver(terms) ==
    LET sum[i \in 0..Len(terms)] == IF i = 0 THEN 0 ELSE sum[i - 1] + terms[i]
    IN  sum[Len(terms)]

\* "YYYY-MM-DD" strings compared as strings: a <= b
StringLeq(a, b) ==
    \/ a[1] < b[1]
    \/ (a[1] = b[1] /\ a[2] < b[2])
    \/ (a[1] = b[1] /\ a[2] = b[2] /\ a[3] <= b[3])

\* history filter settings: type, start and end of the date range (the
\* search term and the tag filter are left empty)
HistoryFilters ==
    {[type |-> ty, start |-> st, end |-> en] :
        ty \in {"ALL", "LOAN_REPAY", "INVESTMENT"},
        st \in {<<>>, <<2024, 2, 1>>},
        en \in {<<>>, <<2024, 2, 1>>}}

\* .sort((a, b) => time(b) - time(a)): stable, latest first
RECURSIVE InsertByDateDescending(_, _)
InsertByDateDescending(s, t) ==
    IF s = <<>> THEN <<t>>
    ELSE IF ParseDateString(t.date) - ParseDateString(s[Len(s)].date) > 0
         THEN Append(InsertByDateDescending(SubSeq(s, 1, Len(s) - 1), t), s[Len(s)])
         ELSE Append(s, t)

RECURSIVE SortByDateDescending(_)
SortByDateDescending(txns) ==
    IF txns = <<>> THEN <<>>
    ELSE InsertByDateDescending(SortByDateDescending(SubSeq(txns, 1, Len(txns) - 1)),
                                txns[Len(txns)])

\* filteredTransactions
filteredTransactions(txns, filter) ==
    SortByDateDescending(SelectSeq(txns, LAMBDA t :
        /\ (filter.type = "ALL" \/ t.type = filter.type)
        /\ (filter.start = <<>> \/ StringLeq(filter.start, t.date))
        /\ (filter.end = <<>> \/ StringLeq(t.date, filter.end))))

\* filteredSummary: what one transaction adds to totalIncome
SummaryIncome(t) ==
    IF \/ t.type \in {"INCOME", "DEPOSIT", "LOAN_IN"}
       \/ (t.type = "CUSTOM" /\ Truthy(t.isPositive))
    THEN t.amount ELSE 0

\* filteredSummary: what one transaction adds to totalExpense (the else-if
\* branch adds the amount and takes a withdrawable investment back out)
SummaryExpense(t) ==
    IF \/ t.type \in {"INCOME", "DEPOSIT", "LOAN_IN"}
       \/ (t.type = "CUSTOM" /\ Truthy(t.isPositive))
    THEN 0
    ELSE IF \/ t.type \in {"EXPENSE", "LOAN_REPAY"}
            \/ (t.type = "CUSTOM" /\ ~Truthy(t.isPositive))
            \/ t.type = "INVESTMENT"
         THEN IF t.type = "INVESTMENT" /\ Truthy(t.isWithdrawable)
              THEN t.amount - t.amount ELSE t.amount
         ELSE 0

filteredSummary(filtered) ==
    [totalIncome |->
         SumOver([i \in 1..Len(filtered) |-> SummaryIncome(filtered[i])]),
     totalExpense |->
         SumOver([i \in 1..Len(filtered) |-> SummaryExpense(filtered[i])]),
     count |-> Len(filtered)]

\* chartData: the number of points of a range
daysToGenerate(chartRange) ==
    IF chartRange = "6M" THEN 180 ELSE IF chartRange = "7D" THEN 7 ELSE 30

\* chartData: dateStr of point i (0-based).  center is the UTC calendar date
\* of chartCenterDate; setDate moves the instant by whole days and
\* toISOString().split('T')[0] reads its UTC date
ChartDateStr(chartRange, center, i) ==
    CivilFromDays(DaysFromCivil(center[1], center[2], center[3])
                  - (daysToGenerate(chartRange) \div 2) + i)

\* chartData: the INCOME metric's term for one transaction
ChartIncome(t) ==
    IF t.type \in {"INCOME", "DEPOSIT", "LOAN_IN"} THEN t.amount
    ELSE IF t.type = "CUSTOM" /\ Truthy(t.isPositive) THEN t.amount
    ELSE 0

\* chartData: the EXPENSE metric's term for one transaction
ChartExpense(t) ==
    IF t.type \in {"EXPENSE", "LOAN_REPAY"} THEN t.amount
    ELSE IF t.type = "CUSTOM" /\ ~Truthy(t.isPositive) THEN t.amount
    ELSE IF t.type = "INVESTMENT" /\ ~Truthy(t.isWithdrawable) THEN t.amount
    ELSE 0

\* chartData: the value of the point for dateStr under a metric
ChartValue(txns, chartMetric, dateStr) ==
    LET day == OnDate(txns, dateStr)
    IN  IF chartMetric = "LIQUID" THEN calculateBalances(txns, dateStr).liquid
        ELSE IF chartMetric = "INCOME"
             THEN SumOver([i \in 1..Len(day) |-> ChartIncome(day[i])])
        ELSE IF chartMetric = "EXPENSE"
             THEN SumOver([i \in 1..Len(day) |-> ChartExpense(day[i])])
        ELSE 0

\* chartData: the series of {fullDate, value} points
chartData(txns, chartRange, center, chartMetric) ==
    [k \in 1..daysToGenerate(chartRange) |->
        LET dateStr == ChartDateStr(chartRange, center, k - 1)
        IN  [fullDate |-> dateStr, value |-> ChartValue(txns, chartMetric, dateStr)]]

\* ============================================================== properties
IsCalc   == call.op = "calculateBalances"
IsLedger == call.op = "getDailyBalancesForMonth"

\* calendar order on date strings: d1 is the same day as d2 or an earlier one
OnOrBefore(d1, d2) ==
    \/ d1[1] < d2[1]
    \/ (d1[1] = d2[1] /\ d1[2] < d2[2])
    \/ (d1[1] = d2[1] /\ d1[2] = d2[2] /\ d1[3] <= d2[3])

RemoveAt(s, i) == SubSeq(s, 1, i - 1) \o SubSeq(s, i + 1, Len(s))

\* the call was calculateBalances and transaction i is not after its cutoff
CalcIncludes(i) ==
    /\ IsCalc
    /\ (call.targetDate = <<>> \/ OnOrBefore(transactions[i].date, call.targetDate))

\* what transaction i adds to the totals calculateBalances returned
CalcLiquidDelta(i) ==
    result.liquid - calculateBalances(RemoveAt(transactions, i), call.targetDate).liquid

CalcNetWorthDelta(i) ==
    result.netWorth - calculateBalances(RemoveAt(transactions, i), call.targetDate).netWorth

\* the ledger the same call returns when transaction i is left out
LedgerWithout(i) ==
    getDailyBalancesForMonth(RemoveAt(transactions, i), call.year, call.month, tzOffset)

\* transaction i adds delta to the balance of every recorded day on or after its date
LedgerDeltaAgainst(i, other, delta) ==
    \A k \in DOMAIN result :
        OnOrBefore(transactions[i].date, k) => result[k] - other[k] = delta

LedgerDeltaIs(i, delta) == LedgerDeltaAgainst(i, LedgerWithout(i), delta)

\* the ledger call recorded at least one day on or after transaction i's date
LedgerCovers(i) ==
    /\ IsLedger
    /\ \E k \in DOMAIN result : OnOrBefore(transactions[i].date, k)

\* C1: for every day d of the requested month, the balance
\* getDailyBalancesForMonth stores under d's key equals
\* calculateBalances(transactions, d).liquid
C1_MonthLedgerConsistency ==
    IsLedger =>
        \A k \in DOMAIN result :
            result[k] = calculateBalances(transactions, k).liquid

\* C2: a LOAN_REPAY transaction of amount A contributes liquid -A and net worth 0,
\* in calculateBalances and in the running total of getDailyBalancesForMonth
C2_RepayLoanDelta ==
    \A i \in DOMAIN transactions :
        transactions[i].type = "LOAN_REPAY" =>
            /\ CalcIncludes(i) =>
                  /\ CalcLiquidDelta(i) = -transactions[i].amount
                  /\ CalcNetWorthDelta(i) = 0
            /\ IsLedger => LedgerDeltaIs(i, -transactions[i].amount)

\* C3: an INVESTMENT of amount A has liquid delta 0 when isWithdrawable is true and
\* -A when it is false, and net-worth delta 0 in both cases
C3_InvestmentDelta ==
    \A i \in DOMAIN transactions :
        (transactions[i].type = "INVESTMENT" /\ transactions[i].isWithdrawable # "undefined") =>
            LET expected == IF transactions[i].isWithdrawable = "true" THEN 0
                            ELSE -transactions[i].amount
            IN  /\ CalcIncludes(i) =>
                      /\ CalcLiquidDelta(i) = expected
                      /\ CalcNetWorthDelta(i) = 0
                /\ IsLedger => LedgerDeltaIs(i, expected)

C3_Witness ==
    /\ IsLedger
    /\ Len(transactions) = 2
    /\ transactions[1].type = "INVESTMENT" /\ transactions[1].isWithdrawable = "true"
    /\ transactions[2].type = "INVESTMENT" /\ transactions[2].isWithdrawable = "false"
    /\ LedgerCovers(1) /\ LedgerCovers(2)
    /\ \E k \in DOMAIN result : result[k] = -transactions[2].amount

\* C4: for INCOME, DEPOSIT, EXPENSE and CUSTOM the liquid delta and the net-worth
\* delta are equal: +A for INCOME, DEPOSIT and CUSTOM with isPositive true, -A for
\* EXPENSE and CUSTOM with isPositive false
C4_EqualDeltas ==
    \A i \in DOMAIN transactions :
        LET t == transactions[i]
            plus  == t.type \in {"INCOME", "DEPOSIT"} \/ (t.type = "CUSTOM" /\ t.isPositive = "true")
            minus == t.type = "EXPENSE" \/ (t.type = "CUSTOM" /\ t.isPositive = "false")
        IN  (CalcIncludes(i) /\ (plus \/ minus)) =>
                /\ CalcLiquidDelta(i) = (IF plus THEN t.amount ELSE -t.amount)
                /\ CalcNetWorthDelta(i) = CalcLiquidDelta(i)

C4_Witness ==
    /\ IsCalc
    /\ Len(transactions) = 2
    /\ transactions[1].type = "CUSTOM" /\ transactions[1].isPositive = "false"
    /\ transactions[2].type = "DEPOSIT"
    /\ CalcIncludes(1) /\ CalcIncludes(2)
    /\ result.liquid = transactions[2].amount - transactions[1].amount
    /\ result.liquid # 0

\* C5: a LOAN_IN of amount A increases liquid by A and leaves net worth unchanged;
\* calculateBalances over a list holding only that transaction returns
\* {liquid: A, netWorth: 0}
C5_BorrowIn ==
    \A i \in DOMAIN transactions :
        (transactions[i].type = "LOAN_IN" /\ CalcIncludes(i)) =>
            /\ CalcLiquidDelta(i) = transactions[i].amount
            /\ CalcNetWorthDelta(i) = 0
            /\ Len(transactions) = 1 =>
                  result = [liquid |-> transactions[i].amount, netWorth |-> 0]

C5_Witness ==
    /\ IsCalc
    /\ Len(transactions) = 1
    /\ transactions[1].type = "LOAN_IN"
    /\ call.targetDate = <<>>
    /\ result.liquid = transactions[1].amount

\* a transaction whose own flag is absent
MissingFlag(t) ==
    \/ (t.type = "CUSTOM" /\ t.isPositive = "undefined")
    \/ (t.type = "INVESTMENT" /\ t.isWithdrawable = "undefined")

\* C6 (as claimed): a CUSTOM transaction without isPositive, or an INVESTMENT
\* without isWithdrawable, contributes zero liquid and zero net worth in both
\* calculateBalances and getDailyBalancesForMonth
C6_MissingFlagZero ==
    \A i \in DOMAIN transactions :
        MissingFlag(transactions[i]) =>
            /\ CalcIncludes(i) => (CalcLiquidDelta(i) = 0 /\ CalcNetWorthDelta(i) = 0)
            /\ IsLedger => LedgerDeltaIs(i, 0)

\* C6 (amended): an absent flag is read as false, in both functions: a CUSTOM
\* transaction without isPositive contributes -A to liquid and to net worth, an
\* INVESTMENT without isWithdrawable contributes -A to liquid and 0 to net worth
C6_MissingFlagAsFalse ==
    \A i \in DOMAIN transactions :
        MissingFlag(transactions[i]) =>
            /\ CalcIncludes(i) =>
                  /\ CalcLiquidDelta(i) = -transactions[i].amount
                  /\ CalcNetWorthDelta(i) =
                        (IF transactions[i].type = "CUSTOM" THEN -transactions[i].amount ELSE 0)
            /\ IsLedger => LedgerDeltaIs(i, -transactions[i].amount)

C6_Witness ==
    /\ IsLedger
    /\ Len(transactions) = 2
    /\ transactions[1].type = "CUSTOM" /\ transactions[1].isPositive = "undefined"
    /\ transactions[2].type = "INVESTMENT" /\ transactions[2].isWithdrawable = "undefined"
    /\ LedgerCovers(1) /\ LedgerCovers(2)
    /\ \E k \in DOMAIN result : result[k] = -(transactions[1].amount + transactions[2].amount)

\* C7: a transaction whose type is outside the seven types contributes nothing:
\* both functions return what they return for the list without it
C7_UnknownTypeIgnored ==
    \A i \in DOMAIN transactions :
        transactions[i].type \notin TransactionTypes =>
            /\ IsCalc =>
                  result = calculateBalances(RemoveAt(transactions, i), call.targetDate)
            /\ IsLedger => result = LedgerWithout(i)

C7_Witness ==
    /\ IsLedger
    /\ Len(transactions) = 2
    /\ transactions[1].type = UnknownType
    /\ transactions[2].type = "INCOME"
    /\ LedgerCovers(1) /\ LedgerCovers(2)
    /\ \E k \in DOMAIN result : result[k] = transactions[2].amount

\* the per-transaction totals, summed over the transactions dated on or before
\* targetDate (all of them when targetDate is omitted)
RECURSIVE SumOnOrBefore(_, _, _)
SumOnOrBefore(txns, targetDate, i) ==
    IF i > Len(txns) THEN [liquid |-> 0, netWorth |-> 0]
    ELSE LET rest == SumOnOrBefore(txns, targetDate, i + 1)
             own  == IF targetDate = <<>> \/ OnOrBefore(txns[i].date, targetDate)
                     THEN calculateBalances(<<txns[i]>>, <<>>)
                     ELSE [liquid |-> 0, netWorth |-> 0]
         IN  [liquid |-> own.liquid + rest.liquid, netWorth |-> own.netWorth + rest.netWorth]

\* C8: calculateBalances(transactions, cutoff) sums the deltas of exactly the
\* transactions dated on or before cutoff; with the cutoff omitted it sums all of
\* them, as any cutoff later than every transaction date does
C8_CutoffInclusive ==
    IsCalc =>
        /\ result = SumOnOrBefore(transactions, call.targetDate, 1)
        /\ call.targetDate = <<>> =>
              \A later \in TargetDates \ {<<>>} :
                  (\A i \in DOMAIN transactions : OnOrBefore(transactions[i].date, later))
                      => result = calculateBalances(transactions, later)

C8_Witness ==
    /\ IsCalc
    /\ Len(transactions) = 2
    /\ transactions[1].date = call.targetDate
    /\ ~OnOrBefore(transactions[2].date, call.targetDate)
    /\ transactions[1].type = "INCOME" /\ transactions[2].type = "INCOME"
    /\ result.liquid = transactions[1].amount

\* days of the calendar month m (1..12) of year y
CalendarDays(y, m) ==
    IF m = 2
    THEN (IF (y % 4 = 0 /\ y % 100 # 0) \/ y % 400 = 0 THEN 29 ELSE 28)
    ELSE (IF m \in {4, 6, 9, 11} THEN 30 ELSE 31)

\* C9: the map getDailyBalancesForMonth returns has exactly one entry per calendar
\* day of the month, keyed by the dates of days 1 .. last day, and no other key
C9_OneKeyPerDay ==
    IsLedger =>
        DOMAIN result =
            {<<call.year, call.month + 1, d>> : d \in 1..CalendarDays(call.year, call.month + 1)}

C9_Witness ==
    /\ IsLedger
    /\ call.year = 2024 /\ call.month = 1
    /\ <<2024, 2, 29>> \in DOMAIN result
    /\ Cardinality(DOMAIN result) = 29

\* liquid total of the transactions dated strictly before the 1st of the month
RECURSIVE BaselineBefore(_, _, _)
BaselineBefore(txns, first, i) ==
    IF i > Len(txns) THEN 0
    ELSE (IF OnOrBefore(first, txns[i].date) THEN 0
          ELSE calculateBalances(<<txns[i]>>, <<>>).liquid)
         + BaselineBefore(txns, first, i + 1)

\* C10: if no transaction is dated on day d, the balance of day d equals the
\* balance of day d - 1; for day 1 it equals the baseline, the liquid total of the
\* transactions dated strictly before the 1st
C10_CarryForward ==
    IsLedger =>
        \A k \in DOMAIN result :
            (\A i \in DOMAIN transactions : transactions[i].date # k) =>
                IF k[3] = 1
                THEN result[k] = BaselineBefore(transactions, k, 1)
                ELSE result[k] = result[<<k[1], k[2], k[3] - 1>>]

\* the last calendar day of the month the ledger call was made for
LastDayOfCall == currentDateStr(call.year, call.month, daysInMonth(call.year, call.month))

\* C11: a transaction dated after the last day of the requested month is
\* never consumed by getDailyBalancesForMonth: leaving it out of the list
\* leaves every value of the returned map unchanged
C11_AfterMonthNotConsumed ==
    IsLedger =>
        \A i \in 1..Len(transactions) :
            ~OnOrBefore(transactions[i].date, LastDayOfCall) => LedgerWithout(i) = result

\* Scenario C: a locked investment on 1 March, a withdrawable one on 2 March
ScenarioC ==
    <<[date |-> <<2024, 3, 1>>, amount |-> 300, type |-> "INVESTMENT",
       isWithdrawable |-> "false", isPositive |-> "undefined"],
      [date |-> <<2024, 3, 2>>, amount |-> 300, type |-> "INVESTMENT",
       isWithdrawable |-> "true", isPositive |-> "undefined"]>>

\* the call was the March 2024 ledger of Scenario C
ScenarioCLedger ==
    /\ transactions = ScenarioC
    /\ IsLedger
    /\ call.year = 2024
    /\ call.month = 2

\* C12 as stated: in Scenario C the March 2024 ledger has day-1 balance
\* -300 and day-2 balance 0
C12_ScenarioCDayTwoZero ==
    ScenarioCLedger =>
        /\ result[<<2024, 3, 1>>] = -300
        /\ result[<<2024, 3, 2>>] = 0

\* C12: in Scenario C the March 2024 ledger has day-1 balance -300 and
\* day-2 balance -300: the withdrawable investment of day 2 adds nothing
\* to the running total that day 1 left
C12_ScenarioCCarried ==
    ScenarioCLedger =>
        /\ result[<<2024, 3, 1>>] = -300
        /\ result[<<2024, 3, 2>>] = -300

C12_Witness ==
    /\ ScenarioCLedger
    /\ result[<<2024, 3, 2>>] = result[<<2024, 3, 1>>]

\* the list reordered by the permutation p of its positions
Reordered(txns, p) == [i \in 1..Len(txns) |-> txns[p[i]]]

\* C17: reordering the transaction list does not change the result: for
\* every permutation of the input calculateBalances returns the same
\* totals and getDailyBalancesForMonth returns the same map
C17_OrderIndependent ==
    \A p \in Permutations(1..Len(transactions)) :
        /\ IsCalc =>
              calculateBalances(Reordered(transactions, p), call.targetDate) = result
        /\ IsLedger =>
              getDailyBalancesForMonth(Reordered(transactions, p), call.year,
                                       call.month, tzOffset) = result

\* a ledger call on a list given latest-first whose two entries move the
\* balance differently
C17_Witness ==
    /\ IsLedger
    /\ call.month = 2
    /\ Len(transactions) >= 2
    /\ transactions[1].date = <<2024, 3, 2>>
    /\ transactions[2].date = <<2024, 3, 1>>
    /\ transactions[1].type = "INCOME"
    /\ transactions[2].type = "EXPENSE"
    /\ result[<<2024, 3, 1>>] /= result[<<2024, 3, 2>>]

C13_UniqueIds ==
    \A i, j \in 1..Len(transactions) :
        i /= j => transactions[i].id /= transactions[j].id

\* C14: every transaction that reached the collection through a form
\* submit or through importFromExcel has amount >= 0
C14_AmountNonNegative ==
    \A i \in 1..Len(transactions) : transactions[i].amount >= 0

\* what one transaction alone adds to the aggregator's liquid total
LiquidDelta(t) == calculateBalances(<<t>>, <<>>).liquid

NetWorthDelta(t) == calculateBalances(<<t>>, <<>>).netWorth

AmountIfPositiveDelta(t) == IF LiquidDelta(t) > 0 THEN t.amount ELSE 0

AmountIfNegativeDelta(t) == IF LiquidDelta(t) < 0 THEN t.amount ELSE 0

\* sum of the amounts of the list's transactions with a positive liquid delta
PositiveDeltaSum(list) ==
    SumOver([i \in 1..Len(list) |-> AmountIfPositiveDelta(list[i])])

\* sum of the amounts of the list's transactions with a negative liquid delta
NegativeDeltaSum(list) ==
    SumOver([i \in 1..Len(list) |-> AmountIfNegativeDelta(list[i])])

\* C15: filteredSummary uses the aggregator's sign buckets: totalIncome is
\* the sum of the amounts of the filtered transactions with a positive
\* liquid delta, totalExpense the sum of those with a negative one, and
\* totalIncome - totalExpense is calculateBalances(filtered).liquid
C15_SummaryMatchesAggregator ==
    \A filter \in HistoryFilters :
        LET filtered == filteredTransactions(transactions, filter)
            summary  == filteredSummary(filtered)
        IN  /\ summary.totalIncome = PositiveDeltaSum(filtered)
            /\ summary.totalExpense = NegativeDeltaSum(filtered)
            /\ summary.totalIncome - summary.totalExpense
                  = calculateBalances(filtered, <<>>).liquid

\* chart settings the series are compared under
ChartRanges == {"7D", "30D"}

ChartCenters == {<<2024, 2, 1>>}

\* the calendar day before dateStr
PreviousDay(dateStr) ==
    CivilFromDays(DaysFromCivil(dateStr[1], dateStr[2], dateStr[3]) - 1)

\* C16: for every day of the chart window the INCOME point is the sum of
\* the amounts of that day's transactions with a positive liquid delta,
\* the EXPENSE point the sum of those with a negative one, and INCOME minus
\* EXPENSE is the LIQUID point minus the LIQUID value of the previous day
C16_ChartSeriesMatchAggregator ==
    \A chartRange \in ChartRanges, center \in ChartCenters :
        LET income  == chartData(transactions, chartRange, center, "INCOME")
            expense == chartData(transactions, chartRange, center, "EXPENSE")
            liquid  == chartData(transactions, chartRange, center, "LIQUID")
        IN  \A k \in 1..daysToGenerate(chartRange) :
                LET day == OnDate(transactions, liquid[k].fullDate)
                IN  /\ income[k].value = PositiveDeltaSum(day)
                    /\ expense[k].value = NegativeDeltaSum(day)
                    /\ income[k].value - expense[k].value
                          = liquid[k].value
                            - calculateBalances(transactions,
                                                PreviousDay(liquid[k].fullDate)).liquid

\* the list read back from the rows has, position by position, the id,
\* date, type and amount of txns and the same deltas under the aggregator
\* and under the ledger's loop body, and the aggregator totals agree
RoundTripMatches(txns, back) ==
    /\ Len(back) = Len(txns)
    /\ \A i \in 1..Len(txns) :
          /\ back[i].id = txns[i].id
          /\ back[i].date = txns[i].date
          /\ back[i].type = txns[i].type
          /\ back[i].amount = txns[i].amount
          /\ LiquidDelta(back[i]) = LiquidDelta(txns[i])
          /\ NetWorthDelta(back[i]) = NetWorthDelta(txns[i])
          /\ DayApply(0, back[i]) = DayApply(0, txns[i])
          /\ BaselineApply(0, back[i]) = BaselineApply(0, txns[i])
    /\ \A targetDate \in TargetDates :
          calculateBalances(back, targetDate) = calculateBalances(txns, targetDate)

\* C19: importFromExcel applied to the rows exportToExcel writes for a
\* list, with no range, yields in the same order transactions with the same
\* id, date, type and amount and the same liquid and net-worth deltas
C19_ExportImportRoundTrip ==
    [][(file' /= file /\ file'.rows = exportToExcel(transactions, NoRange)) =>
          \A today \in Todays :
              RoundTripMatches(transactions,
                  importFromExcel(file'.rows, idsIssued, today).transactions)]_vars

\* an export without range is on file and reading it back gives a list that
\* is not the collection itself: a flag the form left undefined comes back
\* as false
C19_Witness ==
    /\ file /= NoFile
    /\ Len(transactions) >= 2
    /\ file.rows = exportToExcel(transactions, NoRange)
    /\ \E i \in 1..Len(transactions) :
          /\ transactions[i].type = "INVESTMENT"
          /\ Truthy(transactions[i].isWithdrawable)
    /\ \E i \in 1..Len(transactions) : transactions[i].isWithdrawable = "undefined"
    /\ \A today \in Todays :
          importFromExcel(file.rows, idsIssued, today).transactions /= transactions

\* the id handleSubmit gives the transaction it saves
SubmittedId ==
    IF editingTransaction /= Null /\ editingTransaction.id /= ""
    THEN editingTransaction.id
    ELSE generateId(idsIssued + 1)

\* C20: handleSaveTransaction(t) with an id already in the collection
\* replaces that entry in place (length, position and every other entry
\* unchanged); with an id not in the collection it appends t at the end and
\* changes no other entry
C20_SaveReplacesOrAppends ==
    [][(showForm /\ ~showForm' /\ HandleSubmit) =>
          LET index == FindIndex(transactions, SubmittedId)
          IN  IF index >= 1
              THEN /\ Len(transactions') = Len(transactions)
                   /\ transactions'[index].id = SubmittedId
                   /\ \A j \in 1..Len(transactions) :
                         j /= index => transactions'[j] = transactions[j]
              ELSE /\ Len(transactions') = Len(transactions) + 1
                   /\ transactions'[Len(transactions')].id = SubmittedId
                   /\ \A j \in 1..Len(transactions) :
                         transactions'[j] = transactions[j]]_vars

\* the entry x1, which the form did not create, was edited through the form
\* and is still first,
\* and an entry with a generated id stands at the end
C20_Witness ==
    /\ Len(transactions) = 2
    /\ transactions[1].id = "x1"
    /\ transactions[1].type = "INVESTMENT"
    /\ transactions[2].id = "g1"
    /\ ~showForm

\* C21: empty input is the identity: calculateBalances([]) returns
\* {liquid: 0, netWorth: 0}, and getDailyBalancesForMonth([], year, month)
\* maps every day of the month to 0
C21_EmptyInput ==
    transactions = <<>> =>
        /\ IsCalc => result = [liquid |-> 0, netWorth |-> 0]
        /\ IsLedger =>
              \A d \in 1..CalendarDays(call.year, call.month + 1) :
                  /\ <<call.year, call.month + 1, d>> \in DOMAIN result
                  /\ result[<<call.year, call.month + 1, d>>] = 0

\* the March 2024 ledger of the empty list has been returned
C21_Witness ==
    /\ transactions = <<>>
    /\ IsLedger
    /\ call.month = 2
    /\ result[<<2024, 3, 31>>] = 0

\* sum of what the loop body adds for the first n entries of the sorted list
RECURSIVE AppliedSum(_, _)
AppliedSum(sorted, n) ==
    IF n = 0 THEN 0 ELSE AppliedSum(sorted, n - 1) + DayApply(0, sorted[n])

\* C22: in the month sweep the cursor into the date-sorted list only
\* advances, each transaction is applied to the running total at most once,
\* and when day d's balance is recorded the applied transactions are exactly
\* those dated on or before day d
C22_SweepCursor ==
    IsLedger =>
        LET sorted == SortByDate(transactions)
        IN  \A d \in 1..daysInMonth(call.year, call.month) :
                LET cur    == SweepCursor(sorted, call.year, call.month, tzOffset, d)
                    before == SweepCursor(sorted, call.year, call.month, tzOffset, d - 1)
                    key    == currentDateStr(call.year, call.month, d)
                IN  /\ before.tIndex <= cur.tIndex
                    /\ cur.tIndex <= Len(sorted)
                    /\ result[key] = cur.runningLiquid
                    /\ cur.runningLiquid = AppliedSum(sorted, cur.tIndex)
                    /\ \A i \in 1..Len(sorted) :
                          (i <= cur.tIndex) <=> OnOrBefore(sorted[i].date, key)

\* C23: the result of getDailyBalancesForMonth does not depend on the
\* runtime's local UTC offset: for the same transactions, year and month
\* every offset gives the map this call returned
C23_OffsetIndependent ==
    IsLedger =>
        \A tz \in TzOffsets :
            getDailyBalancesForMonth(transactions, call.year, call.month, tz) = result

\* C26: in every state reachable through the shell's handlers, whenever the
\* form is closed (showForm false) there is no edit target and no
\* pre-selected date: editingTransaction is null and preSelectedDate is
\* undefined
C26_ClosedFormHasNoTarget ==
    ~showForm => (editingTransaction = Null /\ preSelectedDate = <<>>)

\* the form was submitted from the day-details modal and is closed again,
\* the modal still open on a day holding the saved investment
C26_Witness ==
    /\ ~showForm
    /\ selectedDayDetails /= Null
    /\ editingTransaction = Null
    /\ preSelectedDate = <<>>
    /\ \E i \in 1..Len(transactions) :
          /\ transactions[i].type = "INVESTMENT"
          /\ transactions[i].date = selectedDayDetails.date

\* positions of prev whose transaction has another id than the given one
OtherIds(prev, id) == {j \in 1..Len(prev) : prev[j].id /= id}

C30_ImportOutcome ==
    [][\A rows \in PickableFiles, today \in Todays :
          LET imported == importFromExcel(rows, idsIssued, today).transactions
          IN  /\ \A replace \in BOOLEAN :
                    DoHandleImport(rows, today, replace, FALSE) =>
                        transactions' = transactions
              /\ DoHandleImport(rows, today, FALSE, TRUE) =>
                    /\ Len(transactions') = Len(transactions) + Len(imported)
                    /\ \A j \in 1..Len(transactions) : transactions'[j] = transactions[j]
                    /\ \A j \in 1..Len(imported) :
                          transactions'[Len(transactions) + j] = imported[j]
              /\ DoHandleImport(rows, today, TRUE, TRUE) =>
                    transactions' = imported]_vars

\* a merge has put the sheet's row x1 behind an entry that was there
C30_Witness ==
    /\ Len(transactions) = 2
    /\ transactions[2].id = "x1"
    /\ transactions[2].type = "LOAN_REPAY"
    /\ transactions[1].id /= "x1"

\* C24: whenever the day-details modal is open after a handleSaveTransaction
\* or a handleDelete, the list it shows, selectedDayDetails.transactions, is
\* the collection's transactions on selectedDayDetails.date, also after an
\* edit that moves a listed transaction to another date
C24_ModalFollowsCollection ==
    [][((HandleSubmit \/ HandleDelete) /\ selectedDayDetails' /= Null /\ ~showForm') =>
          selectedDayDetails'.transactions =
              OnDate(transactions', selectedDayDetails'.date)]_vars

\* the transaction a submit step has just saved: the entry of the new
\* collection at the place handleSaveTransaction wrote it
SavedBySubmit ==
    LET index == FindIndex(transactions, SubmittedId)
    IN  IF index >= 1 THEN transactions'[index]
        ELSE transactions'[Len(transactions')]

\* C29: every transaction produced by handleSubmit carries only the optional
\* attributes of its type: lender only for LOAN_IN and LOAN_REPAY,
\* isWithdrawable only for INVESTMENT, customName and isPositive only for
\* CUSTOM, also when an existing transaction is edited and its type changed
C29_OptionalAttributesOfType ==
    [][(showForm /\ ~showForm' /\ HandleSubmit) =>
          LET t == SavedBySubmit
          IN  /\ t.lender /= "undefined" => t.type \in {"LOAN_IN", "LOAN_REPAY"}
              /\ t.isWithdrawable /= "undefined" => t.type = "INVESTMENT"
              /\ t.customName /= "undefined" => t.type = "CUSTOM"
              /\ t.isPositive /= "undefined" => t.type = "CUSTOM"]_vars

\* the loan repayment x1, which had a lender, was edited into a
\* custom entry: it has the custom name and the sign and no lender
C29_Witness ==
    /\ ~showForm
    /\ \E i \in 1..Len(transactions) :
          /\ transactions[i].id = "x1"
          /\ transactions[i].type = "CUSTOM"
          /\ transactions[i].lender = "undefined"
          /\ transactions[i].isWithdrawable = "undefined"
          /\ transactions[i].customName = "Gift"
          /\ transactions[i].isPositive = "true"

\* C27: handleMouseMove changes chartCenterDate only between a
\* handleMouseDown and the next handleMouseUp; during a drag the center is
\* the drag-start date minus round((clientX - dragStartX) / 20) days, so it
\* depends on the pointer's current offset only, and with the pointer back
\* at the start position the center is the drag-start date again
C27_ChartPanning ==
    [][/\ \A x \in ClientXs :
             (DoHandleMouseMove(x) /\ chartCenterDate' /= chartCenterDate) =>
                 (isDragging /\ isDragging')
       /\ isDragging' =>
             LET daysShift == DaysBetween(chartCenterDate', dragStartDate')
                 deltaX == clientX' - dragStartX'
             IN  /\ pixelsPerDay * (2 * daysShift - 1) <= 2 * deltaX
                 /\ 2 * deltaX < pixelsPerDay * (2 * daysShift + 1)
                 /\ deltaX = 0 => chartCenterDate' = dragStartDate']_vars

\* a second drag, begun on a center an earlier drag left, has the pointer 25
\* pixels left of its start and the center one day after its start date
C27_Witness ==
    /\ isDragging
    /\ dragStartDate /= <<>>
    /\ dragStartDate /= ChartToday
    /\ clientX - dragStartX = 0 - 25
    /\ chartCenterDate = AddDays(dragStartDate, 1)

\* C25: startup never loses stored data: if the store holds a valid
\* non-empty collection when App mounts, then once the load effect, the save
\* effect and the render they cause have run, the collection and the store
\* both equal it; and whenever a later mutation has settled the store equals
\* the current collection
C25_StartupKeepsStore ==
    /\ \A c \in StoredCollections :
          (pending = MountEffects /\ localStorage = JSONstringify(c))
              ~> (/\ pending = <<>>
                  /\ transactions = c
                  /\ localStorage = JSONstringify(c))
    /\ [](pending = <<>> => localStorage = JSONstringify(transactions))

\* the mount has settled on the stored collection of two, no handler has run
C25_Witness ==
    /\ pending = <<>>
    /\ idsIssued = 0
    /\ ~showForm
    /\ transactions = <<StoredInvestment, StoredLoan>>
    /\ localStorage = JSONstringify(transactions)

====
